---- MODULE Spec2Model ----
(***************************************************************************)
(* Connection registry and relay engine of the smart-home socket server.   *)
(*                                                                         *)
(* src/server.js holds successive revisions of the same server.  Two of    *)
(* them differ in behaviour and are both modelled, selected by the         *)
(* variable `revision`:                                                    *)
(*   "probe"  lines 369-699   active probing (monitorConnection)           *)
(*   "sweep"  lines 714-1130  passive sweep (cleanupStaleDevices)          *)
(* The revision of lines 1-367 and src/unnamed/part_000 have the handlers  *)
(* of "sweep" and no sweep timer: their behaviours are the behaviours of   *)
(* "sweep" in which the sweep never fires.                                 *)
(***************************************************************************)
EXTENDS Integers, Sequences, FiniteSets, TLC

(***************************************************************************)
(* Bounds of the model.                                                    *)
(***************************************************************************)
MaxOps == 2
MaxSteps == 4

Sockets == {"s1", "s2"}
MacAddresses == {"d1", "d2"}
UserIds == {"u1", "u2"}

(***************************************************************************)
(* Program constants.                                                      *)
(***************************************************************************)
LATENCY_THRESHOLD == 1000

\* delay of the registrationTimeout of a connection
REGISTRATION_WATCH_MS == 15000
DEVICE_TIMEOUT_MS == 90000
CLEANUP_INTERVAL_MS == 30000
DEFAULT_USER == "default_user"
CONNECTED == "connected"
UNSTABLE == "unstable"
DISCONNECTED == "disconnected"

None == "none"
RoomUsers == UserIds \cup {DEFAULT_USER}

(***************************************************************************)
(* Payloads.  A payload is a function whose domain is the set of fields    *)
(* the message carries: an absent field reads as undefined.                *)
(***************************************************************************)
Restrict(f, S) == [x \in S |-> f[x]]

IsUndefined(data, f) == f \notin DOMAIN data

\* !x for a string-valued field: undefined and the empty string are falsy.
Falsy(data, f) == IsUndefined(data, f) \/ data[f] = ""

EmptyObject == [k \in {} |-> FALSE]

\* `pin${pinNumber}`
PinKey(pinNumber) == "pin" \o ToString(pinNumber)

\* { ...a, ...b }
Spread(a, b) ==
    [k \in (DOMAIN a) \cup (DOMAIN b) |-> IF k \in DOMAIN b THEN b[k] ELSE a[k]]

\* obj[key] = value
AssignKey(obj, key, value) ==
    [k \in (DOMAIN obj) \cup {key} |-> IF k = key THEN value ELSE obj[k]]

(***************************************************************************)
(* Insertion-ordered Map keyed by a field of its entries, as a sequence.   *)
(***************************************************************************)
MapIndex(m, field, k) == CHOOSE i \in 1..Len(m) : m[i][field] = k

MapHas(m, field, k) == \E i \in 1..Len(m) : m[i][field] = k

MapGet(m, field, k) == m[MapIndex(m, field, k)]

\* Map.set: an existing key keeps its place, a new key goes last.
MapSet(m, field, v) ==
    IF MapHas(m, field, v[field])
    THEN [m EXCEPT ![MapIndex(m, field, v[field])] = v]
    ELSE Append(m, v)

\* Map.delete: a no-op for an absent key.
MapDelete(m, field, k) == SelectSeq(m, LAMBDA e : e[field] # k)

\* Faulty variant of FirstBySocket: the first entry, whatever its socket.
FirstOfAny(m, id) == IF Len(m) = 0 THEN 0 ELSE 1

\* for (const [k, v] of m.entries()) { if (v.socketId === id) { ...; break } }
FirstBySocket(m, id) ==
    LET hits == {i \in 1..Len(m) : m[i].socketId = id}
    IN  IF hits = {} THEN 0 ELSE CHOOSE i \in hits : \A j \in hits : i <= j

\* Set.add on an insertion-ordered Set.
SetAdd(s, x) == IF \E i \in 1..Len(s) : s[i] = x THEN s ELSE Append(s, x)

Range(s) == {s[i] : i \in 1..Len(s)}

VARIABLES
    revision,          \* which revision of the server runs
    now,               \* the clock, ms
    ops,               \* handler runs that changed the state so far
    sockState,         \* per transport session: "open", "closed"
    connectedDevices,  \* Map macAddress -> deviceInfo
    connectedUsers,    \* Map userId -> userInfo
    deviceUserMap,     \* Map userId -> Set of macAddress
    rooms,             \* members of room user_<userId>
    monitors,          \* per socket, the closures monitorConnection created
    lastOp,            \* the message or timer callback being handled
    emitted,           \* the messages its handler emitted, in order
    offlineCount,      \* history: device_offline broadcasts per macAddress
                       \* since its last registration
    everSession,       \* history: <<userId, macAddress>> of every Device
                       \* Session that has existed
    everHolder,        \* history: <<socket, macAddress>> of every Device
                       \* Session that has existed
    lastOwner,         \* history: per socket, the userId of its latest
                       \* registration
    everUser,          \* history: <<socket, userId>> of every user_connect
                       \* that was accepted
    registrationTimeout, \* per socket, the setTimeout of its connection
    cleanupInterval,   \* the setInterval of cleanupStaleDevices
    serverState        \* "listening", or "closing" once server.close() ran

vars == <<revision, now, ops, sockState, connectedDevices, connectedUsers,
          deviceUserMap, rooms, monitors, lastOp, emitted, offlineCount,
          everSession, everHolder, lastOwner, everUser, registrationTimeout,
          cleanupInterval, serverState>>

processVars == <<cleanupInterval, serverState>>

timerVars == <<registrationTimeout, cleanupInterval, serverState>>

OpenSockets == {s \in Sockets : sockState[s] = "open"}

(***************************************************************************)
(* Outbound messages.  rcpt is the set of sessions the transport delivers  *)
(* the message to at the time it is emitted.                               *)
(***************************************************************************)
\* socket.emit(event, body)
SocketEmit(s, event, body) ==
    [kind |-> "socket", to |-> s, except |-> None, rcpt |-> {s},
     event |-> event, body |-> body]

\* io.to(socketId).emit(event, body)
IoToSocket(s, open, event, body) ==
    [kind |-> "socket", to |-> s, except |-> None, rcpt |-> {s} \cap open,
     event |-> event, body |-> body]

\* io.to(`user_${u}`).emit(event, body)
IoToRoom(u, members, event, body) ==
    [kind |-> "room", to |-> u, except |-> None, rcpt |-> members[u],
     event |-> event, body |-> body]

\* socket.to(`user_${u}`).emit(event, body): the room without the sender
SocketToRoom(s, u, members, event, body) ==
    [kind |-> "room", to |-> u, except |-> s, rcpt |-> members[u] \ {s},
     event |-> event, body |-> body]

\* Faulty variant of ErrorMsg: io.emit instead of socket.emit.
ErrorToAll(s, text) ==
    [kind |-> "socket", to |-> s, except |-> None, rcpt |-> Sockets,
     event |-> "error", body |-> [message |-> text]]

\* socket.emit('error', { message: text })
ErrorMsg(s, text) == SocketEmit(s, "error", [message |-> text])

\* socket.join(`user_${u}`)
Join(members, s, u) == [members EXCEPT ![u] = @ \cup {s}]

\* the transport takes a closed socket out of every room before 'disconnect'
LeaveAll(members, s) == [u \in RoomUsers |-> members[u] \ {s}]

OfflineFor(msgs, mac) ==
    Cardinality({i \in 1..Len(msgs) :
        msgs[i].event = "device_offline" /\ msgs[i].body.macAddress = mac})

\* history bookkeeping shared by every step; registered is the set of
\* <<userId, macAddress>> sessions the step stored
History(msgs, registered) ==
    /\ offlineCount' =
         [d \in MacAddresses |->
            IF \E p \in registered : p[2] = d
            THEN 0 ELSE offlineCount[d] + OfflineFor(msgs, d)]
    /\ everSession' = everSession \cup registered
    /\ everHolder' =
         everHolder \cup {<<lastOp'.socket, p[2]>> : p \in registered}
    /\ lastOwner' =
         IF registered = {} THEN lastOwner
         ELSE [lastOwner EXCEPT
                 ![lastOp'.socket] = (CHOOSE p \in registered : TRUE)[1]]
    /\ everUser' =
         IF lastOp'.name = "user_connect" /\ ~Falsy(lastOp'.data, "userId")
         THEN everUser \cup {<<lastOp'.socket, lastOp'.data.userId>>}
         ELSE everUser

Idle == [name |-> "idle", socket |-> None, data |-> EmptyObject]

\* The sessions are connected at the start: io.on('connection') only installs
\* the listeners of a socket and changes nothing in the registry.
Init ==
    /\ revision = "sweep"
    /\ now = 0
    /\ ops = 0
    /\ sockState = [s \in Sockets |-> "open"]
    /\ connectedDevices = <<>>
    /\ connectedUsers = <<>>
    /\ deviceUserMap = <<>>
    /\ rooms = [u \in RoomUsers |-> {}]
    /\ monitors = [s \in Sockets |-> <<>>]
    /\ lastOp = Idle
    /\ emitted = <<>>
    /\ offlineCount = [d \in MacAddresses |-> 0]
    /\ everSession = {}
    /\ everHolder = {}
    /\ lastOwner = [s \in Sockets |-> None]
    /\ everUser = {}
    /\ registrationTimeout = [s \in Sockets |-> "pending"]
    /\ cleanupInterval = "active"
    /\ serverState = "listening"

\* a registrationTimeout whose delay has elapsed and that nothing cleared
WatchDue ==
    \E s \in Sockets :
        registrationTimeout[s] = "pending" /\ now >= REGISTRATION_WATCH_MS

\* The event loop is single-threaded: a message or timer callback is
\* dispatched only when the previous handler has returned, and a timeout that
\* is due runs before the messages that arrive after it.
Dispatch(name, s, data) ==
    /\ lastOp = Idle
    /\ name = "registration_watch" \/ ~WatchDue
    /\ name \in {"registration_watch", "cleanup"} \/ cleanupInterval # "due"
    /\ lastOp' = [name |-> name, socket |-> s, data |-> data]

\* an inbound message that changes the registry, or a shutdown signal
Counted == ops < MaxOps /\ ops' = ops + 1

\* a probe timer callback, the acknowledgement of a probe, or the disconnect
\* notification of a socket
Probed == ops < MaxSteps /\ ops' = ops + 1

\* The handler returns; what it emitted has been handed to the transport.
Return ==
    /\ lastOp # Idle
    /\ lastOp' = Idle
    /\ emitted' = <<>>
    /\ UNCHANGED timerVars
    /\ UNCHANGED <<revision, now, ops, sockState, connectedDevices,
                   connectedUsers, deviceUserMap, rooms, monitors,
                   offlineCount, everSession, everHolder, lastOwner,
                   everUser>>

\* The instants at which handlers run: the start, and the instants at which
\* the age of a timestamp taken at the start is 1 ms more than the threshold
\* the revision compares it with (and, for the sweep, exactly the threshold).
ClockInstants ==
    IF revision = "probe"
    THEN {0, LATENCY_THRESHOLD + 1}
    ELSE {0, DEVICE_TIMEOUT_MS, DEVICE_TIMEOUT_MS + 1}

\* Time passes between handlers.
AdvanceClock(t) ==
    /\ lastOp = Idle
    /\ ~WatchDue
    /\ t > now
    /\ now' = t
    /\ UNCHANGED timerVars
    /\ UNCHANGED <<revision, ops, sockState, connectedDevices, connectedUsers,
                   deviceUserMap, rooms, monitors, lastOp, emitted,
                   offlineCount, everSession, everHolder, lastOwner,
                   everUser>>

(***************************************************************************)
(* Inbound payloads.                                                       *)
(***************************************************************************)
\* A full payload, the payloads with one field left out, and the payloads
\* with one identifier empty.
OneOut(full, fields) == {Restrict(f, fields \ {x}) : f \in full, x \in fields}

InitialPins == [k \in {"pin0"} |-> FALSE]

RegisterData ==
    {[macAddress |-> "d1", userId |-> "u1", gpioStatus |-> InitialPins],
     [macAddress |-> "d1", userId |-> "u2", gpioStatus |-> InitialPins],
     [macAddress |-> "d2", userId |-> "u1", gpioStatus |-> InitialPins],
     [macAddress |-> "d1"],
     [macAddress |-> "d1", userId |-> ""],
     [userId |-> "u1", gpioStatus |-> InitialPins],
     [macAddress |-> "", userId |-> "u1", gpioStatus |-> InitialPins]}

StatusData ==
    {[macAddress |-> "d1", gpioStatus |-> [k \in {"pin0"} |-> TRUE]],
     [macAddress |-> "d1", gpioStatus |-> [k \in {"pin1"} |-> TRUE]],
     [macAddress |-> "d2", gpioStatus |-> [k \in {"pin1"} |-> TRUE]],
     EmptyObject}

UserData == {[userId |-> u] : u \in UserIds \cup {""}} \cup {EmptyObject}

ControlData ==
    LET base == [macAddress |-> "d1", pinNumber |-> 0, state |-> FALSE,
                 userId |-> "u1"]
        full == {[base EXCEPT !.macAddress = d, !.userId = u] :
                    d \in MacAddresses, u \in UserIds}
                \cup {[base EXCEPT !.pinNumber = 1, !.state = TRUE]}
    IN  full
        \cup OneOut({base}, DOMAIN base)
        \cup {[base EXCEPT !.macAddress = ""], [base EXCEPT !.userId = ""]}

QueryData == {[userId |-> u] : u \in UserIds} \cup {EmptyObject}

\* connectedDevices.get(macAddress) finds an entry
DeviceFound(data) ==
    /\ ~IsUndefined(data, "macAddress")
    /\ MapHas(connectedDevices, "macAddress", data.macAddress)

Device(mac) == MapGet(connectedDevices, "macAddress", mac)

(***************************************************************************)
(* monitorConnection: one closure per call.                                *)
(***************************************************************************)
\* start is the local of the timer callback: the instant of the probe that
\* has not been acknowledged yet, -1 when there is none
NewMonitor ==
    [missedHeartbeats |-> 0, connectionState |-> CONNECTED,
     lastHeartbeatTime |-> now, start |-> -1]

(***************************************************************************)
(* Transport disconnect of socket s: the 'disconnect' listeners.           *)
(* members is the room membership after the transport took s out.          *)
(***************************************************************************)
OfflineAudience(s, u, members, body) ==
    SocketToRoom(s, u, members, "device_offline", body)

\* Faulty variant of DisconnectDevices: the session of every device the
\* socket ever registered is removed, whoever holds it now.
DisconnectDevicesEverHeld(s, devices) ==
    SelectSeq(devices, LAMBDA d : <<s, d.macAddress>> \notin everHolder)

DisconnectDevices(s, devices) ==
    LET i == FirstBySocket(devices, s)
    IN  IF i = 0 THEN devices
        ELSE MapDelete(devices, "macAddress", devices[i].macAddress)

\* Faulty variant of DisconnectUsers: the first user, whatever its socket.
DisconnectUsersAny(s, users) == IF users = <<>> THEN users ELSE Tail(users)

\* for (const [userId, user] of connectedUsers.entries())
\*   if (user.socketId === socket.id) { connectedUsers.delete(userId); break }
DisconnectUsers(s, users) ==
    LET i == FirstBySocket(users, s)
    IN  IF i = 0 THEN users
        ELSE MapDelete(users, "userId", users[i].userId)

DisconnectMsgs(s, devices, members) ==
    LET i == FirstBySocket(devices, s)
    IN  IF i = 0 THEN <<>>
        ELSE << OfflineAudience(s, devices[i].userId, members,
                                [macAddress |-> devices[i].macAddress]) >>

\* clearTimeout(registrationTimeout): a timer that has fired stays fired
ClearWatch(w, s) ==
    [w EXCEPT ![s] = IF @ = "pending" THEN "cleared" ELSE @]

\* Faulty variant of ClearMonitors: the intervals are left running.
ClearMonitorsKept(m, s) == m

\* clearInterval(heartbeatInterval) in every closure of the socket
ClearMonitors(m, s) == [m EXCEPT ![s] = <<>>]

\* the registry part of a disconnect, shared by the transport's notification
\* and by socket.disconnect(true) of a probe timer
Disconnected(s, pre) ==
    LET members == LeaveAll(rooms, s)
        msgs == pre \o DisconnectMsgs(s, connectedDevices, members)
    IN  /\ sockState' = [sockState EXCEPT ![s] = "closed"]
        /\ rooms' = members
        /\ monitors' = ClearMonitors(monitors, s)
        /\ registrationTimeout' = ClearWatch(registrationTimeout, s)
        /\ connectedDevices' = DisconnectDevices(s, connectedDevices)
        /\ connectedUsers' = DisconnectUsers(s, connectedUsers)
        /\ emitted' = msgs
        /\ History(msgs, {})

disconnect(s) ==
    /\ sockState[s] = "open"
    /\ Dispatch("disconnect", s, EmptyObject)
    /\ Probed
    /\ Disconnected(s, <<>>)
    /\ UNCHANGED processVars
    /\ UNCHANGED <<revision, now, deviceUserMap>>

(***************************************************************************)
(* device_register / device_online                                         *)
(***************************************************************************)
RegistrationInvalid(data) ==
    IF revision = "probe"
    THEN Falsy(data, "macAddress") \/ Falsy(data, "userId")
    ELSE Falsy(data, "macAddress")

RegistrationError ==
    IF revision = "probe"
    THEN "MAC address and userId are required"
    ELSE "MAC address is required"

\* userId || 'default_user'
DeviceUserId(data) ==
    IF revision = "sweep" /\ Falsy(data, "userId")
    THEN DEFAULT_USER ELSE data.userId

\* gpioStatus || {}
InitialGpio(data) ==
    IF IsUndefined(data, "gpioStatus") THEN EmptyObject ELSE data.gpioStatus

DeviceInfo(s, data) ==
    [socketId |-> s, macAddress |-> data.macAddress,
     userId |-> DeviceUserId(data), gpioStatus |-> InitialGpio(data),
     lastSeen |-> now, connectionState |-> CONNECTED]

\* Faulty variant of StoreDevice: the entry is added beside the one the key has.
StoreDeviceBeside(devices, info) == Append(devices, info)

\* connectedDevices.set(macAddress, deviceInfo)
StoreDevice(devices, info) == MapSet(devices, "macAddress", info)

\* Faulty variant of IndexAdd: the device is taken out of the other owners' sets.
IndexMove(index, u, mac) ==
    LET pruned == [i \in 1..Len(index) |->
                     [index[i] EXCEPT !.devices =
                        SelectSeq(@, LAMBDA d : d # mac \/ index[i].userId = u)]]
    IN  IF MapHas(pruned, "userId", u)
        THEN [pruned EXCEPT
                ![MapIndex(pruned, "userId", u)].devices = SetAdd(@, mac)]
        ELSE Append(pruned, [userId |-> u, devices |-> <<mac>>])

\* Faulty variant of IndexAdd: the owner's set is created anew on every registration.
IndexReset(index, u, mac) ==
    MapSet(index, "userId", [userId |-> u, devices |-> <<mac>>])

\* if (!deviceUserMap.has(u)) deviceUserMap.set(u, new Set());
\* deviceUserMap.get(u).add(mac)
IndexAdd(index, u, mac) ==
    IF MapHas(index, "userId", u)
    THEN [index EXCEPT ![MapIndex(index, "userId", u)].devices = SetAdd(@, mac)]
    ELSE Append(index, [userId |-> u, devices |-> <<mac>>])

\* Faulty variant of OnlineAudience: io.to instead of socket.to.
OnlineToAll(s, u, members, body) ==
    IoToRoom(u, members, "device_online", body)

\* socket.to(`user_${deviceUserId}`).emit('device_online', ...)
OnlineAudience(s, u, members, body) ==
    SocketToRoom(s, u, members, "device_online", body)

\* heartbeatInterval: monitorConnection(socket), in the probe revision
Monitored(s) ==
    IF revision = "probe"
    THEN monitors' = [monitors EXCEPT ![s] = Append(@, NewMonitor)]
    ELSE UNCHANGED monitors

handleDeviceRegistration(s, data) ==
    /\ sockState[s] = "open"
    /\ Dispatch("device_register", s, data)
    /\ IF RegistrationInvalid(data)
       THEN /\ emitted' = <<ErrorMsg(s, RegistrationError)>>
            /\ History(<<>>, {})
            /\ UNCHANGED <<ops, connectedDevices, deviceUserMap, rooms,
                           monitors>>
       ELSE LET info == DeviceInfo(s, data)
                members == Join(rooms, s, info.userId)
            IN  /\ Counted
                /\ Monitored(s)
                /\ connectedDevices' = StoreDevice(connectedDevices, info)
                /\ deviceUserMap' =
                     IndexAdd(deviceUserMap, info.userId, info.macAddress)
                /\ rooms' = members
                /\ emitted' =
                     << SocketEmit(s, "device_registered",
                                   [macAddress |-> info.macAddress]),
                        OnlineAudience(s, info.userId, members,
                                   [macAddress |-> info.macAddress,
                                    gpioStatus |-> InitialGpio(data)]) >>
                /\ History(<<>>, {<<info.userId, info.macAddress>>})
    /\ UNCHANGED timerVars
    /\ UNCHANGED <<revision, now, sockState, connectedUsers>>

(***************************************************************************)
(* gpio_status_update                                                      *)
(***************************************************************************)
\* Faulty variant of UpdateAuthorized: the sender's socket is not compared.
UpdateFoundOnly(s, data) == DeviceFound(data)

\* !(!device || device.socketId !== socket.id)
UpdateAuthorized(s, data) ==
    /\ DeviceFound(data)
    /\ Device(data.macAddress).socketId = s

\* Faulty variant of MergedGpio: device.gpioStatus = gpioStatus || {}.
MergedReplaced(device, data) ==
    IF IsUndefined(data, "gpioStatus") THEN EmptyObject ELSE data.gpioStatus

\* { ...device.gpioStatus, ...gpioStatus }: spreading undefined adds nothing
MergedGpio(device, data) ==
    Spread(device.gpioStatus,
           IF IsUndefined(data, "gpioStatus") THEN EmptyObject
           ELSE data.gpioStatus)

gpio_status_update(s, data) ==
    /\ sockState[s] = "open"
    /\ Dispatch("gpio_status_update", s, data)
    /\ IF ~UpdateAuthorized(s, data)
       THEN /\ emitted' = <<ErrorMsg(s, "Device not found or unauthorized")>>
            /\ UNCHANGED <<ops, connectedDevices>>
       ELSE LET device == Device(data.macAddress)
                merged == MergedGpio(device, data)
            IN  /\ Counted
                /\ connectedDevices' =
                     StoreDevice(connectedDevices,
                        [device EXCEPT !.gpioStatus = merged, !.lastSeen = now])
                /\ emitted' =
                     << IoToRoom(device.userId, rooms, "gpio_status_changed",
                                 [macAddress |-> data.macAddress,
                                  gpioStatus |-> merged]) >>
    /\ History(<<>>, {})
    /\ UNCHANGED timerVars
    /\ UNCHANGED <<revision, now, sockState, connectedUsers, deviceUserMap,
                   rooms, monitors>>

(***************************************************************************)
(* user_connect, get_user_devices                                          *)
(***************************************************************************)
UserInfo(s, data) ==
    [socketId |-> s, userId |-> data.userId, lastSeen |-> now,
     connectionState |-> CONNECTED]

\* Faulty variant of UserDevices: if (device) is left out.
UserDevicesIndexed(u) ==
    LET macs == IF MapHas(deviceUserMap, "userId", u)
                THEN MapGet(deviceUserMap, "userId", u).devices ELSE <<>>
    IN  [i \in 1..Len(macs) |-> [macAddress |-> macs[i]]]

\* the devices of the index entry of u that have a live entry, in index order
UserDevices(u) ==
    LET macs == IF MapHas(deviceUserMap, "userId", u)
                THEN MapGet(deviceUserMap, "userId", u).devices ELSE <<>>
        live == SelectSeq(macs,
                    LAMBDA m : MapHas(connectedDevices, "macAddress", m))
    IN  [i \in 1..Len(live) |->
            [macAddress |-> live[i],
             gpioStatus |-> Device(live[i]).gpioStatus,
             lastSeen |-> Device(live[i]).lastSeen]]

user_connect(s, data) ==
    /\ sockState[s] = "open"
    /\ Dispatch("user_connect", s, data)
    /\ IF Falsy(data, "userId")
       THEN /\ emitted' = <<ErrorMsg(s, "userId is required")>>
            /\ UNCHANGED <<ops, connectedUsers, rooms, monitors>>
       ELSE /\ Counted
            /\ Monitored(s)
            /\ connectedUsers' =
                 MapSet(connectedUsers, "userId", UserInfo(s, data))
            /\ rooms' = Join(rooms, s, data.userId)
            /\ emitted' =
                 << SocketEmit(s, "user_connected",
                               [devices |-> UserDevices(data.userId)]) >>
    /\ History(<<>>, {})
    /\ UNCHANGED timerVars
    /\ UNCHANGED <<revision, now, sockState, connectedDevices, deviceUserMap>>

get_user_devices(s, data) ==
    /\ sockState[s] = "open"
    /\ Dispatch("get_user_devices", s, data)
    /\ emitted' =
         << SocketEmit(s, "user_devices",
               [devices |-> IF IsUndefined(data, "userId") THEN <<>>
                            ELSE UserDevices(data.userId)]) >>
    /\ History(<<>>, {})
    /\ UNCHANGED timerVars
    /\ UNCHANGED <<revision, now, ops, sockState, connectedDevices,
                   connectedUsers, deviceUserMap, rooms, monitors>>

(***************************************************************************)
(* gpio_control                                                            *)
(***************************************************************************)
\* Faulty variant of ControlInvalid: !pinNumber and !state instead of === undefined.
ControlInvalidTruthy(data) ==
    \/ Falsy(data, "macAddress")
    \/ IsUndefined(data, "pinNumber") \/ data.pinNumber = 0
    \/ IsUndefined(data, "state") \/ data.state = FALSE
    \/ Falsy(data, "userId")

\* !macAddress || pinNumber === undefined || state === undefined || !userId
ControlInvalid(data) ==
    \/ Falsy(data, "macAddress")
    \/ IsUndefined(data, "pinNumber")
    \/ IsUndefined(data, "state")
    \/ Falsy(data, "userId")

\* Faulty variant of OwnerMatches: the owner is not compared.
OwnerUnchecked(device, data) == TRUE

\* !(device.userId !== userId)
OwnerMatches(device, data) == device.userId = data.userId

ValidationText == "macAddress, pinNumber, state, and userId are required"
NotFoundText == "Device not found"
UnauthorizedText == "Unauthorized: Device belongs to different user"

\* io.to(device.socketId).emit(...): one event name in the probe revision,
\* two in the sweep revision
ControlRelay(device, data) ==
    IF revision = "probe"
    THEN << IoToSocket(device.socketId, OpenSockets, "gpio_control_command",
                [pinNumber |-> data.pinNumber, state |-> data.state]) >>
    ELSE << IoToSocket(device.socketId, OpenSockets, "gpio_control_command",
                [pinNumber |-> data.pinNumber, state |-> data.state,
                 macAddress |-> data.macAddress]),
            IoToSocket(device.socketId, OpenSockets, "gpio_control",
                [pinNumber |-> data.pinNumber, state |-> data.state,
                 macAddress |-> data.macAddress]) >>

\* Faulty variant of Commanded: the pin map is replaced by the commanded pin alone.
CommandedAlone(device, data) ==
    [device EXCEPT
        !.gpioStatus = AssignKey(EmptyObject, PinKey(data.pinNumber), data.state),
        !.lastSeen = now]

\* device.gpioStatus[`pin${pinNumber}`] = state; device.lastSeen = new Date()
Commanded(device, data) ==
    [device EXCEPT
        !.gpioStatus = AssignKey(@, PinKey(data.pinNumber), data.state),
        !.lastSeen = now]

gpio_control(s, data) ==
    /\ sockState[s] = "open"
    /\ Dispatch("gpio_control", s, data)
    /\ IF ControlInvalid(data)
       THEN /\ emitted' = <<ErrorMsg(s, ValidationText)>>
            /\ UNCHANGED <<ops, connectedDevices>>
       ELSE IF ~DeviceFound(data)
       THEN /\ emitted' = <<ErrorMsg(s, NotFoundText)>>
            /\ UNCHANGED <<ops, connectedDevices>>
       ELSE IF ~OwnerMatches(Device(data.macAddress), data)
       THEN /\ emitted' = <<ErrorMsg(s, UnauthorizedText)>>
            /\ UNCHANGED <<ops, connectedDevices>>
       ELSE LET device == Device(data.macAddress)
                updated == Commanded(device, data)
            IN  /\ Counted
                /\ connectedDevices' = StoreDevice(connectedDevices, updated)
                /\ emitted' =
                     ControlRelay(device, data) \o
                     << IoToRoom(device.userId, rooms, "gpio_status_changed",
                                 [macAddress |-> data.macAddress,
                                  gpioStatus |-> updated.gpioStatus]),
                        SocketEmit(s, "gpio_control_sent",
                                 [macAddress |-> data.macAddress,
                                  pinNumber |-> data.pinNumber,
                                  state |-> data.state]) >>
    /\ History(<<>>, {})
    /\ UNCHANGED timerVars
    /\ UNCHANGED <<revision, now, sockState, connectedUsers, deviceUserMap,
                   rooms, monitors>>

(***************************************************************************)
(* heartbeat_ack                                                           *)
(***************************************************************************)
\* sweep revision: the first device of the socket is refreshed
\* Faulty variant of AckDevices: a socket without a Device Session gets one.
AckDevicesRevived(s, devices) ==
    LET i == FirstBySocket(devices, s)
    IN  IF i = 0
        THEN Append(devices,
                [socketId |-> s, macAddress |-> "d1", userId |-> DEFAULT_USER,
                 gpioStatus |-> EmptyObject, lastSeen |-> now,
                 connectionState |-> CONNECTED])
        ELSE [devices EXCEPT ![i].lastSeen = now,
                             ![i].connectionState = CONNECTED]

AckDevices(s, devices) ==
    LET i == FirstBySocket(devices, s)
    IN  IF i = 0 THEN devices
        ELSE [devices EXCEPT ![i].lastSeen = now,
                             ![i].connectionState = CONNECTED]

\* probe revision: the listener of one monitorConnection closure
AckLatency(m) == now - m.lastHeartbeatTime

AckState(m) ==
    IF AckLatency(m) > LATENCY_THRESHOLD THEN UNSTABLE ELSE CONNECTED

AckMonitor(m) ==
    [missedHeartbeats |-> 0, connectionState |-> AckState(m),
     lastHeartbeatTime |-> now, start |-> -1]

AckMsgs(s, m) ==
    IF AckState(m) # m.connectionState
    THEN << SocketEmit(s, "connection_status",
                [state |-> AckState(m), latency |-> AckLatency(m)]) >>
    ELSE <<>>

RECURSIVE Flatten(_)
Flatten(ss) == IF ss = <<>> THEN <<>> ELSE Head(ss) \o Flatten(Tail(ss))

heartbeat_ack(s) ==
    /\ sockState[s] = "open"
    /\ Dispatch("heartbeat_ack", s, EmptyObject)
    /\ IF revision = "sweep"
       THEN /\ connectedDevices' = AckDevices(s, connectedDevices)
            /\ emitted' = <<>>
            /\ IF FirstBySocket(connectedDevices, s) = 0
               THEN UNCHANGED ops ELSE Counted
            /\ UNCHANGED monitors
       ELSE /\ monitors' =
                 [monitors EXCEPT ![s] =
                    [i \in 1..Len(@) |-> AckMonitor(@[i])]]
            /\ emitted' =
                 Flatten([i \in 1..Len(monitors[s]) |->
                            AckMsgs(s, monitors[s][i])])
            /\ IF monitors[s] = <<>>
               THEN UNCHANGED ops
               ELSE IF \E i \in 1..Len(monitors[s]) : monitors[s][i].start >= 0
                    THEN Probed ELSE Counted
            /\ UNCHANGED connectedDevices
    /\ History(<<>>, {})
    /\ UNCHANGED timerVars
    /\ UNCHANGED <<revision, now, sockState, connectedUsers, deviceUserMap,
                   rooms>>

(***************************************************************************)
(* The probe timer of closure i of socket s (setInterval callback).        *)
(***************************************************************************)
UnstableAfter == 2
DisconnectAfter == 3

\* Faulty variant of TickState: unstable one miss later.
TickStateLate(missed, state) ==
    IF missed >= DisconnectAfter THEN DISCONNECTED
    ELSE IF missed > UnstableAfter THEN UNSTABLE
    ELSE state

\* connectionState after the timer callback has counted the miss
TickState(missed, state) ==
    IF missed >= DisconnectAfter THEN DISCONNECTED
    ELSE IF missed >= UnstableAfter THEN UNSTABLE
    ELSE state

TickMsgs(s, missed) ==
    << SocketEmit(s, "heartbeat", EmptyObject) >>
    \o (IF missed >= UnstableAfter
        THEN << SocketEmit(s, "connection_status", [state |-> UNSTABLE]) >>
        ELSE <<>>)
    \o (IF missed >= DisconnectAfter
        THEN << SocketEmit(s, "connection_status", [state |-> DISCONNECTED]) >>
        ELSE <<>>)

\* Faulty variant of ForcesDisconnect: > instead of >=.
ForcesDisconnectLate(missed) == missed > DisconnectAfter

\* socket.disconnect(true) is reached
ForcesDisconnect(missed) == missed >= DisconnectAfter

heartbeatTick(s, i) ==
    /\ revision = "probe"
    /\ i \in 1..Len(monitors[s])
    /\ Dispatch("heartbeat_tick", s, [closure |-> i])
    /\ Probed
    /\ LET missed == monitors[s][i].missedHeartbeats + 1
       IN  IF ForcesDisconnect(missed)
           THEN Disconnected(s, TickMsgs(s, missed))
           ELSE /\ monitors' =
                     [monitors EXCEPT
                        ![s][i].start = now,
                        ![s][i].missedHeartbeats = missed,
                        ![s][i].connectionState = TickState(missed, @)]
                /\ emitted' = TickMsgs(s, missed)
                /\ History(<<>>, {})
                /\ UNCHANGED <<sockState, rooms, connectedDevices,
                               connectedUsers, registrationTimeout>>
    /\ UNCHANGED processVars
    /\ UNCHANGED <<revision, now, deviceUserMap>>

(***************************************************************************)
(* cleanupStaleDevices (setInterval callback of the sweep revision)        *)
(***************************************************************************)
\* Faulty variant of Stale: >= instead of >.
StaleAtThreshold(device) == now - device.lastSeen >= DEVICE_TIMEOUT_MS

\* timeSinceLastSeen > DEVICE_TIMEOUT_MS
Stale(device) == now - device.lastSeen > DEVICE_TIMEOUT_MS

devicesToRemove(devices) == SelectSeq(devices, Stale)

\* Faulty variant of SweepDevices: connectedDevices.delete is left out.
SweepKeeps(devices) == devices

\* connectedDevices.delete(macAddress) for each of devicesToRemove
SweepDevices(devices) == SelectSeq(devices, LAMBDA d : ~Stale(d))

SweepMsgs(devices, members) ==
    LET gone == devicesToRemove(devices)
    IN  [i \in 1..Len(gone) |->
            IoToRoom(gone[i].userId, members, "device_offline",
                     [macAddress |-> gone[i].macAddress,
                      reason |-> "timeout"])]

cleanupStaleDevices ==
    /\ revision = "sweep"
    /\ cleanupInterval \in {"active", "due"}
    /\ Dispatch("cleanup", None, EmptyObject)
    /\ connectedDevices' = SweepDevices(connectedDevices)
    /\ emitted' = SweepMsgs(connectedDevices, rooms)
    /\ History(SweepMsgs(connectedDevices, rooms), {})
    /\ cleanupInterval' = "active"
    /\ UNCHANGED <<registrationTimeout, serverState>>
    /\ UNCHANGED <<revision, now, ops, sockState, connectedUsers,
                   deviceUserMap, rooms, monitors>>

(***************************************************************************)
(* registrationTimeout (setTimeout callback of a connection)               *)
(***************************************************************************)
\* The callback looks for a Device Session of the socket and only logs.
registrationWatch(s) ==
    /\ revision = "sweep"
    /\ registrationTimeout[s] = "pending"
    /\ now >= REGISTRATION_WATCH_MS
    /\ Dispatch("registration_watch", s, EmptyObject)
    /\ registrationTimeout' = [registrationTimeout EXCEPT ![s] = "fired"]
    /\ emitted' = <<>>
    /\ History(<<>>, {})
    /\ UNCHANGED processVars
    /\ UNCHANGED <<revision, now, ops, sockState, connectedDevices,
                   connectedUsers, deviceUserMap, rooms, monitors>>

(***************************************************************************)
(* process.on('SIGINT')                                                    *)
(***************************************************************************)
\* clearInterval(cleanupInterval), which only the sweep revision calls
StopSweep(interval) == IF revision = "sweep" THEN "cleared" ELSE interval

\* server.close() stops listening and leaves the connected sockets, their
\* listeners and their timers as they are.
SIGINT ==
    /\ serverState = "listening"
    /\ Dispatch("SIGINT", None, EmptyObject)
    /\ Counted
    /\ cleanupInterval' = StopSweep(cleanupInterval)
    /\ serverState' = "closing"
    /\ emitted' = <<>>
    /\ History(<<>>, {})
    /\ UNCHANGED <<revision, now, sockState, connectedDevices, connectedUsers,
                   deviceUserMap, rooms, monitors, registrationTimeout>>

\* The steps both revisions take.
Common ==
    \/ Return
    \/ \E t \in ClockInstants : AdvanceClock(t)
    \/ \E s \in Sockets, data \in RegisterData : handleDeviceRegistration(s, data)
    \/ \E s \in Sockets, data \in StatusData : gpio_status_update(s, data)
    \/ \E s \in Sockets, data \in UserData : user_connect(s, data)
    \/ \E s \in Sockets, data \in QueryData : get_user_devices(s, data)
    \/ \E s \in Sockets, data \in ControlData : gpio_control(s, data)
    \/ \E s \in Sockets : heartbeat_ack(s)
    \/ \E s \in Sockets : disconnect(s)
    \/ SIGINT

\* The sweep revision, src/server.js lines 714-1130.
Next ==
    \/ Common
    \/ cleanupStaleDevices
    \/ \E s \in Sockets : registrationWatch(s)

Spec == Init /\ [][Next]_vars

\* The probe revision, src/server.js lines 369-699.
InitProbe ==
    /\ revision = "probe"
    /\ now = 0
    /\ ops = 0
    /\ sockState = [s \in Sockets |-> "open"]
    /\ connectedDevices = <<>>
    /\ connectedUsers = <<>>
    /\ deviceUserMap = <<>>
    /\ rooms = [u \in RoomUsers |-> {}]
    /\ monitors = [s \in Sockets |-> <<>>]
    /\ lastOp = Idle
    /\ emitted = <<>>
    /\ offlineCount = [d \in MacAddresses |-> 0]
    /\ everSession = {}
    /\ everHolder = {}
    /\ lastOwner = [s \in Sockets |-> None]
    /\ everUser = {}
    /\ registrationTimeout = [s \in Sockets |-> "none"]
    /\ cleanupInterval = "none"
    /\ serverState = "listening"

NextProbe ==
    \/ Common
    \/ \E s \in Sockets : \E i \in 1..Len(monitors[s]) : heartbeatTick(s, i)

SpecProbe == InitProbe /\ [][NextProbe]_vars

(***************************************************************************)
(* The sweep revision with its interval timer on schedule: every           *)
(* CLEANUP_INTERVAL_MS the sweep is due and runs before the messages that  *)
(* arrive after it, and at most MaxOps messages change the registry        *)
(* between two sweeps.  s1 is the device; s2 is another session, which     *)
(* sends user_connect, get_user_devices and gpio_control.                  *)
(***************************************************************************)
\* The clock is kept within Horizon: once it would pass it, the epoch moves
\* instead and every stored timestamp moves back with it.  A timestamp older
\* than Horizon is kept at 0: its age stays above DEVICE_TIMEOUT_MS.
Horizon == DEVICE_TIMEOUT_MS + CLEANUP_INTERVAL_MS

Rebased(x, over) == IF x < over THEN 0 ELSE x - over

\* CLEANUP_INTERVAL_MS pass and the interval timer becomes due.
Lapse ==
    LET t == now + CLEANUP_INTERVAL_MS
        over == IF t > Horizon THEN t - Horizon ELSE 0
    IN  /\ lastOp = Idle
        /\ ~WatchDue
        /\ cleanupInterval = "active"
        /\ now' = t - over
        /\ connectedDevices' =
             [i \in 1..Len(connectedDevices) |->
                [connectedDevices[i] EXCEPT !.lastSeen = Rebased(@, over)]]
        /\ connectedUsers' =
             [i \in 1..Len(connectedUsers) |->
                [connectedUsers[i] EXCEPT !.lastSeen = Rebased(@, over)]]
        /\ cleanupInterval' = "due"
        /\ ops' = 0
        /\ UNCHANGED <<revision, sockState, deviceUserMap, rooms, monitors,
                       lastOp, emitted, offlineCount, everSession, everHolder,
                       lastOwner, everUser, registrationTimeout, serverState>>

LiveRegisterData ==
    {[macAddress |-> "d1", userId |-> "u1", gpioStatus |-> InitialPins]}

LiveControlData ==
    {[macAddress |-> "d1", pinNumber |-> 0, state |-> FALSE, userId |-> "u1"]}

LiveUserData == {[userId |-> "u1"]}

NextLive ==
    \/ Return
    \/ Lapse
    \/ cleanupStaleDevices
    \/ \E s \in Sockets : registrationWatch(s)
    \/ \E data \in LiveRegisterData : handleDeviceRegistration("s1", data)
    \/ \E data \in LiveUserData : user_connect("s2", data)
    \/ \E data \in LiveUserData : get_user_devices("s2", data)
    \/ \E data \in LiveControlData : gpio_control("s2", data)

\* Handlers return, time passes, and the timer callbacks run when due.
SpecLive ==
    /\ Init
    /\ [][NextLive]_vars
    /\ WF_vars(Return)
    /\ WF_vars(cleanupStaleDevices)
    /\ WF_vars(\E s \in Sockets : registrationWatch(s))
    /\ SF_vars(Lapse)

\* Either revision: what holds here holds of the sweep revision and of the
\* probe revision, each with the timers it creates.
InitAny == Init \/ InitProbe

NextAny ==
    \/ Common
    \/ cleanupStaleDevices
    \/ \E s \in Sockets : registrationWatch(s)
    \/ \E s \in Sockets : \E i \in 1..Len(monitors[s]) : heartbeatTick(s, i)

SpecAny == InitAny /\ [][NextAny]_vars


(***************************************************************************)
(* Properties of the registry.                                             *)
(***************************************************************************)
Sessions(mac) ==
    {i \in 1..Len(connectedDevices) : connectedDevices[i].macAddress = mac}

\* deviceUserMap.has(u) && deviceUserMap.get(u).has(mac)
InIndex(u, mac) ==
    \E i \in 1..Len(deviceUserMap) :
        /\ deviceUserMap[i].userId = u
        /\ mac \in Range(deviceUserMap[i].devices)

Errors(msgs) == {i \in 1..Len(msgs) : msgs[i].event = "error"}

Broadcasts(msgs) == {i \in 1..Len(msgs) : msgs[i].kind = "room"}

\* C1: the registry holds at most one Device Session per macAddress, and
\* when a registration has been handled the session of its macAddress is the
\* one it stored: its socket and its owner are those of that registration.
C1_OneSessionPerDevice ==
    /\ \A mac \in MacAddresses : Cardinality(Sessions(mac)) <= 1
    /\ (lastOp.name = "device_register" /\ ~Falsy(lastOp.data, "macAddress"))
        => /\ Cardinality(Sessions(lastOp.data.macAddress)) = 1
           /\ \A i \in Sessions(lastOp.data.macAddress) :
                /\ connectedDevices[i].socketId = lastOp.socket
                /\ connectedDevices[i].userId =
                     IF Falsy(lastOp.data, "userId")
                     THEN DEFAULT_USER ELSE lastOp.data.userId

\* C1 witness: a second socket has registered the macAddress the first one
\* had registered, and the registry holds the one session of the second.
C1_Replaced ==
    /\ lastOp.name = "device_register"
    /\ ops = 2
    /\ connectedUsers = <<>>
    /\ Len(connectedDevices) = 1
    /\ connectedDevices[1].socketId = lastOp.socket
    /\ \E u \in RoomUsers : \E s \in rooms[u] : s # lastOp.socket

\* C2: a gpio_control whose userId differs from the userId stored for the
\* device emits one error to the caller and nothing else, and leaves every
\* Device Session (pin map, lastSeen) as it was.
C2_ForeignControlRejected ==
    [][(/\ lastOp'.name = "gpio_control"
        /\ \A f \in {"macAddress", "pinNumber", "state", "userId"} :
              ~IsUndefined(lastOp'.data, f)
        /\ Sessions(lastOp'.data.macAddress) # {}
        /\ \A i \in Sessions(lastOp'.data.macAddress) :
              connectedDevices[i].userId # lastOp'.data.userId)
       => /\ Len(emitted') = 1
          /\ emitted'[1].event = "error"
          /\ emitted'[1].kind = "socket"
          /\ emitted'[1].rcpt = {lastOp'.socket}
          /\ connectedDevices' = connectedDevices]_vars

\* C2 witness: a control of a registered device under another userId has
\* been answered.
C2_ForeignControl ==
    /\ lastOp.name = "gpio_control"
    /\ emitted = <<ErrorMsg(lastOp.socket, UnauthorizedText)>>
    /\ ~IsUndefined(lastOp.data, "macAddress")
    /\ \E i \in Sessions(lastOp.data.macAddress) :
          /\ connectedDevices[i].userId # lastOp.data.userId
          /\ connectedDevices[i].gpioStatus # EmptyObject

\* C3: a gpio_status_update from a socket other than the one stored for the
\* macAddress, or for a macAddress without session, emits one error to the
\* sender, no broadcast, and leaves every Device Session as it was.
C3_ForeignUpdateRejected ==
    [][(/\ lastOp'.name = "gpio_status_update"
        /\ \/ IsUndefined(lastOp'.data, "macAddress")
           \/ \A i \in Sessions(lastOp'.data.macAddress) :
                 connectedDevices[i].socketId # lastOp'.socket)
       => /\ Len(emitted') = 1
          /\ emitted'[1].event = "error"
          /\ emitted'[1].rcpt = {lastOp'.socket}
          /\ Broadcasts(emitted') = {}
          /\ connectedDevices' = connectedDevices]_vars

\* C3 witness: an update for a device registered by another socket has been
\* answered.
C3_ForeignUpdate ==
    /\ lastOp.name = "gpio_status_update"
    /\ ~IsUndefined(lastOp.data, "macAddress")
    /\ \E i \in Sessions(lastOp.data.macAddress) :
          connectedDevices[i].socketId # lastOp.socket
    /\ Errors(emitted) = {1}

ControlFields == {"macAddress", "pinNumber", "state", "userId"}

ValidationRejected(msgs) ==
    \E i \in Errors(msgs) : msgs[i].body.message = ValidationText

ControlledPin(pinNumber) == IF pinNumber = 0 THEN "pin0" ELSE "pin1"

\* C5: a gpio_control that passes the checks relays the command to the
\* socket stored for the device, sets the commanded pin to the commanded
\* state and leaves the other pins and the other devices as they were,
\* broadcasts gpio_status_changed with the whole updated pin map to the room
\* of the owner, and confirms to the caller with macAddress, pinNumber, state.
C5_ControlEffects ==
    [][(/\ lastOp'.name = "gpio_control"
        /\ \A f \in ControlFields : ~IsUndefined(lastOp'.data, f)
        /\ \E i \in Sessions(lastOp'.data.macAddress) :
              connectedDevices[i].userId = lastOp'.data.userId)
       => LET data == lastOp'.data
              i == CHOOSE k \in Sessions(data.macAddress) : TRUE
              old == connectedDevices[i]
              new == connectedDevices'[i]
              key == ControlledPin(data.pinNumber)
          IN  /\ Len(connectedDevices') = Len(connectedDevices)
              /\ \A k \in 1..Len(connectedDevices) :
                    k # i => connectedDevices'[k] = connectedDevices[k]
              /\ new.macAddress = old.macAddress
              /\ new.socketId = old.socketId
              /\ new.userId = old.userId
              /\ DOMAIN new.gpioStatus = DOMAIN old.gpioStatus \cup {key}
              /\ new.gpioStatus[key] = data.state
              /\ \A k \in DOMAIN old.gpioStatus \ {key} :
                    new.gpioStatus[k] = old.gpioStatus[k]
              /\ \E m \in 1..Len(emitted') :
                    /\ emitted'[m].event = "gpio_control_command"
                    /\ emitted'[m].kind = "socket"
                    /\ emitted'[m].to = old.socketId
                    /\ emitted'[m].body.pinNumber = data.pinNumber
                    /\ emitted'[m].body.state = data.state
              /\ \E m \in 1..Len(emitted') :
                    /\ emitted'[m].event = "gpio_status_changed"
                    /\ emitted'[m].kind = "room"
                    /\ emitted'[m].to = data.userId
                    /\ emitted'[m].except = None
                    /\ emitted'[m].body.macAddress = data.macAddress
                    /\ emitted'[m].body.gpioStatus = new.gpioStatus
              /\ \E m \in 1..Len(emitted') :
                    /\ emitted'[m].event = "gpio_control_sent"
                    /\ emitted'[m].rcpt = {lastOp'.socket}
                    /\ emitted'[m].body =
                         [macAddress |-> data.macAddress,
                          pinNumber |-> data.pinNumber,
                          state |-> data.state]
              /\ Errors(emitted') = {}
              /\ Cardinality(Broadcasts(emitted')) = 1]_vars

\* C5 witness: a control has been relayed for a device whose pin map holds
\* another pin beside the commanded one.
C5_OtherPinKept ==
    /\ lastOp.name = "gpio_control"
    /\ \E m \in 1..Len(emitted) : emitted[m].event = "gpio_control_sent"
    /\ \E i \in Sessions(lastOp.data.macAddress) :
          DOMAIN connectedDevices[i].gpioStatus = {"pin0", "pin1"}

\* C6: when a probe timer counts its third miss in a row the socket is
\* disconnected in the same callback, and if the socket holds a device the
\* callback emits exactly one device_offline, for that device, to the room
\* of its owner, and removes the device; a socket that holds none emits none.
C6_ThirdMissDisconnects ==
    [][(/\ lastOp'.name = "heartbeat_tick"
        /\ monitors[lastOp'.socket][lastOp'.data.closure].missedHeartbeats + 1
              >= 3)
       => LET s == lastOp'.socket
              held == {i \in 1..Len(connectedDevices) :
                          connectedDevices[i].socketId = s}
              offline == {m \in 1..Len(emitted') :
                             emitted'[m].event = "device_offline"}
          IN  /\ sockState'[s] = "closed"
              /\ monitors'[s] = <<>>
              /\ Cardinality(offline) = IF held = {} THEN 0 ELSE 1
              /\ \A m \in offline :
                    \E i \in held :
                        /\ emitted'[m].kind = "room"
                        /\ emitted'[m].to = connectedDevices[i].userId
                        /\ emitted'[m].body.macAddress =
                              connectedDevices[i].macAddress
                        /\ \A k \in 1..Len(connectedDevices') :
                              connectedDevices'[k].macAddress #
                                 connectedDevices[i].macAddress]_vars

\* C6 witness: a probe timer has closed a socket that held a device and the
\* device_offline of the device has been emitted.
C6_ProbeClosedDevice ==
    /\ lastOp.name = "heartbeat_tick"
    /\ sockState[lastOp.socket] = "closed"
    /\ \E m \in 1..Len(emitted) : emitted[m].event = "device_offline"

\* C7: since the last registration of a macAddress at most one
\* device_offline has been emitted for it, whichever of the sweep and the
\* disconnect removes it first, and neither the sweep nor the disconnect
\* emits an error.
C7_OneOfflinePerSession ==
    /\ \A mac \in MacAddresses : offlineCount[mac] <= 1
    /\ lastOp.name \in {"disconnect", "cleanup"} => Errors(emitted) = {}

\* C7 witness: the socket that had registered a device disconnects after
\* the sweep has removed the device; the disconnect emits nothing.
C7_DisconnectAfterSweep ==
    /\ lastOp.name = "disconnect"
    /\ ops = 2
    /\ emitted = <<>>
    /\ connectedDevices = <<>>
    /\ \A u \in RoomUsers : rooms[u] = {}
    /\ \E mac \in MacAddresses : offlineCount[mac] = 1

\* C8: the disconnect of a socket that holds no Device Session and no User
\* Session changes neither the session stores nor the index and emits
\* nothing.
C8_UnknownDisconnectNoOp ==
    [][(/\ lastOp'.name = "disconnect"
        /\ \A i \in 1..Len(connectedDevices) :
              connectedDevices[i].socketId # lastOp'.socket
        /\ \A i \in 1..Len(connectedUsers) :
              connectedUsers[i].socketId # lastOp'.socket)
       => /\ connectedDevices' = connectedDevices
          /\ connectedUsers' = connectedUsers
          /\ deviceUserMap' = deviceUserMap
          /\ emitted' = <<>>]_vars

\* C8 witness: a socket without session has disconnected while another
\* socket holds a device.
C8_StrangerDisconnected ==
    /\ lastOp.name = "disconnect"
    /\ emitted = <<>>
    /\ connectedUsers = <<>>
    /\ \E i \in 1..Len(connectedDevices) :
          sockState[connectedDevices[i].socketId] = "open"

\* C9: when a macAddress that has had a session under one owner is
\* registered under another, the registry holds exactly one session of the
\* macAddress, its owner is the new one, and the index lists the macAddress
\* under both owners.
C9_ReRegisteredUnderNewOwner ==
    (lastOp.name = "device_register" /\ ~Falsy(lastOp.data, "macAddress"))
        => LET mac == lastOp.data.macAddress
               o2 == IF Falsy(lastOp.data, "userId")
                     THEN DEFAULT_USER ELSE lastOp.data.userId
           IN  \A o1 \in RoomUsers \ {o2} :
                  <<o1, mac>> \in everSession
                     => /\ Cardinality(Sessions(mac)) = 1
                        /\ \A i \in Sessions(mac) :
                              connectedDevices[i].userId = o2
                        /\ InIndex(o1, mac)
                        /\ InIndex(o2, mac)

\* C9 witness: the second of two registrations of one macAddress, under
\* two owners, has been handled.
C9_TwoOwners ==
    /\ lastOp.name = "device_register"
    /\ ops = 2
    /\ \E mac \in MacAddresses :
          /\ Cardinality({p \in everSession : p[2] = mac}) = 2
          /\ Sessions(mac) # {}

\* C10: the index lists a macAddress under an owner exactly when a session
\* of that macAddress under that owner exists or has existed; an entry is
\* never taken out.
C10_IndexIsHistory ==
    \A u \in RoomUsers, mac \in MacAddresses :
        InIndex(u, mac) <=> <<u, mac>> \in everSession

\* C10 witness: the index lists a device that has no session any more.
C10_ListedWithoutSession ==
    \E u \in RoomUsers, mac \in MacAddresses :
        InIndex(u, mac) /\ Sessions(mac) = {}


\* C11: a sweep removes exactly the Device Sessions whose lastSeen is more
\* than DEVICE_TIMEOUT_MS old, emits for each of them one device_offline
\* with reason timeout to the room of its owner and nothing else, and leaves
\* the other Device Sessions, the User Sessions and the index as they were.
C11_SweepExact ==
    [][lastOp'.name = "cleanup"
       => LET old == {i \in 1..Len(connectedDevices) :
                        now - connectedDevices[i].lastSeen > DEVICE_TIMEOUT_MS}
          IN  /\ connectedDevices' =
                   SelectSeq(connectedDevices,
                      LAMBDA d : now - d.lastSeen <= DEVICE_TIMEOUT_MS)
              /\ Len(emitted') = Cardinality(old)
              /\ \A i \in old :
                    \E m \in 1..Len(emitted') :
                        /\ emitted'[m].event = "device_offline"
                        /\ emitted'[m].kind = "room"
                        /\ emitted'[m].to = connectedDevices[i].userId
                        /\ emitted'[m].except = None
                        /\ emitted'[m].body =
                             [macAddress |-> connectedDevices[i].macAddress,
                              reason |-> "timeout"]
              /\ connectedUsers' = connectedUsers
              /\ deviceUserMap' = deviceUserMap]_vars

\* C11 witness: a sweep has removed one device and kept another.
C11_OneRemovedOneKept ==
    /\ lastOp.name = "cleanup"
    /\ emitted # <<>>
    /\ connectedDevices # <<>>


\* C12: when a registration has been accepted, the registry holds a Device
\* Session of the macAddress with the socket of the sender, the owner given
\* (default_user when none is given) and connectionState connected; the
\* sender is in the room of the owner; device_registered has gone to the
\* sender; and device_online has gone to the other members of the room,
\* never to the sender.
C12_RegistrationEffects ==
    (lastOp.name = "device_register" /\ ~Falsy(lastOp.data, "macAddress"))
        => LET s == lastOp.socket
               o == IF Falsy(lastOp.data, "userId")
                    THEN DEFAULT_USER ELSE lastOp.data.userId
           IN  /\ \E i \in Sessions(lastOp.data.macAddress) :
                     /\ connectedDevices[i].socketId = s
                     /\ connectedDevices[i].userId = o
                     /\ connectedDevices[i].connectionState = CONNECTED
               /\ s \in rooms[o]
               /\ \E m \in 1..Len(emitted) :
                     /\ emitted[m].event = "device_registered"
                     /\ emitted[m].rcpt = {s}
               /\ \E m \in 1..Len(emitted) :
                     /\ emitted[m].event = "device_online"
                     /\ emitted[m].to = o
                     /\ emitted[m].rcpt = rooms[o] \ {s}
               /\ \A m \in 1..Len(emitted) :
                     emitted[m].event = "device_online"
                        => s \notin emitted[m].rcpt

\* C12 witness: a registration without userId has been accepted and its
\* device_online has reached another member of the room of default_user.
C12_SentinelRoomHears ==
    /\ lastOp.name = "device_register"
    /\ IsUndefined(lastOp.data, "userId")
    /\ \E m \in 1..Len(emitted) :
          /\ emitted[m].event = "device_online"
          /\ emitted[m].to = DEFAULT_USER
          /\ emitted[m].rcpt # {}


\* C13: an accepted gpio_status_update leaves the device with the pins of
\* the update at the values of the update and its other pins at the values
\* they had, and emits one gpio_status_changed with the whole merged pin map
\* to every member of the room of the owner.
C13_UpdateMerges ==
    [][(/\ lastOp'.name = "gpio_status_update"
        /\ ~IsUndefined(lastOp'.data, "macAddress")
        /\ \E i \in Sessions(lastOp'.data.macAddress) :
              connectedDevices[i].socketId = lastOp'.socket)
       => LET data == lastOp'.data
              i == CHOOSE k \in Sessions(data.macAddress) : TRUE
              old == connectedDevices[i].gpioStatus
              upd == IF IsUndefined(data, "gpioStatus")
                     THEN EmptyObject ELSE data.gpioStatus
              new == connectedDevices'[i].gpioStatus
          IN  /\ connectedDevices'[i].macAddress = data.macAddress
              /\ DOMAIN new = DOMAIN old \cup DOMAIN upd
              /\ \A k \in DOMAIN upd : new[k] = upd[k]
              /\ \A k \in DOMAIN old \ DOMAIN upd : new[k] = old[k]
              /\ Len(emitted') = 1
              /\ emitted'[1].event = "gpio_status_changed"
              /\ emitted'[1].kind = "room"
              /\ emitted'[1].to = connectedDevices[i].userId
              /\ emitted'[1].rcpt = rooms[connectedDevices[i].userId]
              /\ emitted'[1].body =
                   [macAddress |-> data.macAddress, gpioStatus |-> new]]_vars

\* C13 witness: an update of one pin has been accepted for a device that
\* has another pin, and the broadcast carries both.
C13_OtherPinBroadcast ==
    /\ lastOp.name = "gpio_status_update"
    /\ Len(emitted) = 1
    /\ emitted[1].event = "gpio_status_changed"
    /\ DOMAIN emitted[1].body.gpioStatus = {"pin0", "pin1"}
    /\ DOMAIN lastOp.data.gpioStatus = {"pin1"}


\* C14: a registration without macAddress and a user_connect without
\* userId each emit one error, to the sender alone, and leave the Device
\* Sessions, the User Sessions, the index and the rooms as they were.
C14_MissingIdRejected ==
    [][(\/ /\ lastOp'.name = "device_register"
           /\ IsUndefined(lastOp'.data, "macAddress")
        \/ /\ lastOp'.name = "user_connect"
           /\ IsUndefined(lastOp'.data, "userId"))
       => /\ Len(emitted') = 1
          /\ emitted'[1].event = "error"
          /\ emitted'[1].kind = "socket"
          /\ emitted'[1].rcpt = {lastOp'.socket}
          /\ connectedDevices' = connectedDevices
          /\ connectedUsers' = connectedUsers
          /\ deviceUserMap' = deviceUserMap
          /\ rooms' = rooms]_vars

\* C14 witness: a registration without macAddress has been answered while
\* the registry holds a device.
C14_NamelessRegistration ==
    /\ lastOp.name = "device_register"
    /\ IsUndefined(lastOp.data, "macAddress")
    /\ Errors(emitted) = {1}
    /\ connectedDevices # <<>>


\* the macAddresses the index lists under u that have a Device Session
LiveOf(u) ==
    {mac \in MacAddresses : InIndex(u, mac) /\ Sessions(mac) # {}}

Listed(devices) == {devices[i].macAddress : i \in 1..Len(devices)}

\* C15: the user_connected reply and the user_devices reply for an owner
\* list, once each, exactly the macAddresses the index has under the owner
\* that have a Device Session; an owner the index does not know gets the
\* empty list.
C15_SnapshotsListLive ==
    /\ (lastOp.name = "user_connect" /\ ~Falsy(lastOp.data, "userId"))
        => /\ Len(emitted) = 1
           /\ emitted[1].event = "user_connected"
           /\ emitted[1].rcpt = {lastOp.socket}
           /\ Listed(emitted[1].body.devices) = LiveOf(lastOp.data.userId)
           /\ Len(emitted[1].body.devices) =
                 Cardinality(LiveOf(lastOp.data.userId))
    /\ lastOp.name = "get_user_devices"
        => /\ Len(emitted) = 1
           /\ emitted[1].event = "user_devices"
           /\ emitted[1].rcpt = {lastOp.socket}
           /\ Listed(emitted[1].body.devices) =
                 IF IsUndefined(lastOp.data, "userId") THEN {}
                 ELSE LiveOf(lastOp.data.userId)
           /\ Len(emitted[1].body.devices) =
                 Cardinality(Listed(emitted[1].body.devices))

\* C15 witness: a user has connected whose index entry lists a device
\* without Device Session, and the snapshot is empty.
C15_DeadDeviceOmitted ==
    /\ lastOp.name = "user_connect"
    /\ Len(emitted) = 1
    /\ emitted[1].event = "user_connected"
    /\ emitted[1].body.devices = <<>>
    /\ \E mac \in MacAddresses :
          InIndex(lastOp.data.userId, mac) /\ Sessions(mac) = {}


\* C16 as stated: a heartbeat_ack refreshes lastSeen and sets
\* connectionState to connected on the session of the sender, a Device
\* Session if it has one and else its User Session; when the sender has no
\* session nothing changes and nothing is emitted.
C16_AckRefreshesHolder ==
    [][lastOp'.name = "heartbeat_ack"
       => LET s == lastOp'.socket
              devs == {i \in 1..Len(connectedDevices) :
                          connectedDevices[i].socketId = s}
              usrs == {i \in 1..Len(connectedUsers) :
                          connectedUsers[i].socketId = s}
          IN  IF devs # {}
              THEN \E i \in devs :
                      /\ connectedDevices'[i].lastSeen = now
                      /\ connectedDevices'[i].connectionState = CONNECTED
              ELSE IF usrs # {}
              THEN \E i \in usrs :
                      /\ connectedUsers'[i].lastSeen = now
                      /\ connectedUsers'[i].connectionState = CONNECTED
              ELSE /\ connectedDevices' = connectedDevices
                   /\ connectedUsers' = connectedUsers
                   /\ emitted' = <<>>]_vars


\* C17: a disconnect removes at most one Device Session and at most one
\* User Session, each of the socket that disconnected, and keeps every other
\* session as it was; for a removed Device Session it emits one
\* device_offline to the room of the owner of the device, which does not
\* reach the socket that disconnected; it emits nothing else.
C17_DisconnectRemovesOwn ==
    [][lastOp'.name = "disconnect"
       => LET s == lastOp'.socket
              goneD == {i \in 1..Len(connectedDevices) :
                          \A k \in 1..Len(connectedDevices') :
                             connectedDevices'[k].macAddress #
                                connectedDevices[i].macAddress}
              goneU == {i \in 1..Len(connectedUsers) :
                          \A k \in 1..Len(connectedUsers') :
                             connectedUsers'[k].userId #
                                connectedUsers[i].userId}
          IN  /\ Cardinality(goneD) <= 1
              /\ Cardinality(goneU) <= 1
              /\ \A i \in goneD : connectedDevices[i].socketId = s
              /\ \A i \in goneU : connectedUsers[i].socketId = s
              /\ (\E i \in 1..Len(connectedDevices) :
                     connectedDevices[i].socketId = s) => goneD # {}
              /\ (\E i \in 1..Len(connectedUsers) :
                     connectedUsers[i].socketId = s) => goneU # {}
              /\ Len(connectedDevices') =
                    Len(connectedDevices) - Cardinality(goneD)
              /\ Len(connectedUsers') = Len(connectedUsers) - Cardinality(goneU)
              /\ \A i \in 1..Len(connectedDevices) :
                    i \notin goneD
                       => \E k \in 1..Len(connectedDevices') :
                             connectedDevices'[k] = connectedDevices[i]
              /\ \A i \in 1..Len(connectedUsers) :
                    i \notin goneU
                       => \E k \in 1..Len(connectedUsers') :
                             connectedUsers'[k] = connectedUsers[i]
              /\ Len(emitted') = Cardinality(goneD)
              /\ \A i \in goneD :
                    \E m \in 1..Len(emitted') :
                        /\ emitted'[m].event = "device_offline"
                        /\ emitted'[m].kind = "room"
                        /\ emitted'[m].to = connectedDevices[i].userId
                        /\ emitted'[m].body.macAddress =
                              connectedDevices[i].macAddress
                        /\ s \notin emitted'[m].rcpt]_vars

\* C17 witness: a socket that held a device has disconnected and the
\* device_offline of the device has been emitted.
C17_DeviceSocketGone ==
    /\ lastOp.name = "disconnect"
    /\ Len(emitted) = 1
    /\ emitted[1].event = "device_offline"
    /\ emitted[1].except = lastOp.socket
    /\ Sessions(emitted[1].body.macAddress) = {}


\* C18 as stated: the lastSeen of a Device Session changes only in the
\* handler of a device_register, an accepted gpio_status_update or a
\* heartbeat_ack sent by the socket of the session; no message of another
\* socket changes it.
C18_LastSeenOwnSignals ==
    [][\A i \in 1..Len(connectedDevices) :
          \A k \in 1..Len(connectedDevices') :
             (/\ connectedDevices'[k].macAddress =
                    connectedDevices[i].macAddress
              /\ connectedDevices'[k].lastSeen # connectedDevices[i].lastSeen)
             => /\ lastOp'.name \in {"device_register", "gpio_status_update",
                                     "heartbeat_ack"}
                /\ lastOp'.socket = connectedDevices'[k].socketId]_vars


\* C19: a probe timer counts the probes it has sent since the last
\* heartbeat_ack of the socket: a tick adds one, a heartbeat_ack sets every
\* counter of the socket to zero.  A tick that brings the count to 2 makes
\* the state unstable and reports it to the socket; a tick that leaves the
\* count below 2 leaves the state as it was.
C19_UnstableAtTwoMisses ==
    [][/\ lastOp'.name = "heartbeat_tick"
          => LET s == lastOp'.socket
                 i == lastOp'.data.closure
                 missed == monitors[s][i].missedHeartbeats + 1
             IN  missed < 3
                    => /\ monitors'[s][i].missedHeartbeats = missed
                       /\ missed >= 2
                            => /\ monitors'[s][i].connectionState = UNSTABLE
                               /\ \E m \in 1..Len(emitted') :
                                     /\ emitted'[m].event = "connection_status"
                                     /\ emitted'[m].rcpt = {s}
                                     /\ emitted'[m].body.state = UNSTABLE
                       /\ missed < 2
                            => monitors'[s][i].connectionState =
                                  monitors[s][i].connectionState
       /\ lastOp'.name = "heartbeat_ack"
          => \A i \in 1..Len(monitors'[lastOp'.socket]) :
                monitors'[lastOp'.socket][i].missedHeartbeats = 0]_vars

\* C19 witness: a probe timer has counted its second miss and the state of
\* its closure is unstable.
C19_SecondMiss ==
    /\ lastOp.name = "heartbeat_tick"
    /\ sockState[lastOp.socket] = "open"
    /\ monitors[lastOp.socket][lastOp.data.closure].missedHeartbeats = 2
    /\ monitors[lastOp.socket][lastOp.data.closure].connectionState = UNSTABLE


StatusReports(msgs) ==
    SelectSeq(msgs, LAMBDA m : m.event = "connection_status")

\* C20 as stated: a connection_status message is emitted only when the
\* connectionState takes another value: each message of a probe timer
\* callback reports a state other than the one the closure was in just
\* before it, and a heartbeat_ack emits one message for each closure whose
\* state it changes and none for the others.
C20_StatusOnlyOnChange ==
    [][/\ lastOp'.name = "heartbeat_tick"
          => LET before == monitors[lastOp'.socket][lastOp'.data.closure]
                              .connectionState
                 reports == StatusReports(emitted')
             IN  \A k \in 1..Len(reports) :
                    reports[k].body.state #
                       IF k = 1 THEN before ELSE reports[k - 1].body.state
       /\ lastOp'.name = "heartbeat_ack"
          => LET s == lastOp'.socket
                 changed == {i \in 1..Len(monitors[s]) :
                                monitors'[s][i].connectionState #
                                   monitors[s][i].connectionState}
             IN  Len(StatusReports(emitted')) = Cardinality(changed)]_vars


\* C21 as stated: a heartbeat_ack that answers a probe sets the
\* connectionState of the closure from the time between the probe and the
\* heartbeat_ack: unstable when it is over 1000 ms, connected otherwise.
C21_StateFromRoundTrip ==
    [][lastOp'.name = "heartbeat_ack"
       => \A i \in 1..Len(monitors[lastOp'.socket]) :
             LET m == monitors[lastOp'.socket][i]
             IN  m.start >= 0
                    => monitors'[lastOp'.socket][i].connectionState =
                          IF now - m.start > 1000 THEN UNSTABLE ELSE CONNECTED]_vars


\* C22: a socket whose session has ended has no timer left: none of the
\* heartbeat intervals created for it is running and its registrationTimeout
\* is not pending, so no timer of a disconnected socket fires; the
\* registrationTimeout that does fire belongs to a socket that is connected.
C22_TimersCancelled ==
    /\ \A s \in Sockets :
          sockState[s] = "closed"
             => monitors[s] = <<>> /\ registrationTimeout[s] # "pending"
    /\ lastOp.name = "registration_watch" => sockState[lastOp.socket] = "open"

\* a disconnect notification of a socket that had registered a device under
\* the probe revision, and so had a heartbeat interval
C22_MonitoredSocketClosed ==
    /\ revision = "probe"
    /\ lastOp.name = "disconnect"
    /\ \E i \in 1..Len(emitted) : emitted[i].event = "device_offline"


\* C23 as stated: once the shutdown has called server.close() no background
\* timer is left running (the sweep interval is cleared and no socket has a
\* heartbeat interval), and neither a sweep nor a probe runs afterwards.
C23_TimersStoppedBeforeClose ==
    /\ serverState = "closing"
          => /\ cleanupInterval # "active"
             /\ \A s \in Sockets : monitors[s] = <<>>
    /\ lastOp.name \in {"cleanup", "heartbeat_tick"}
          => serverState = "listening"


\* C24: when a socket that no longer holds the Device Session of a device is
\* disconnected (another socket registered the device after it), the session
\* of the device stays in the store as it was and no device_offline is
\* emitted for the device.
C24_ReplacedHolderLeaves ==
    [][lastOp'.name = "disconnect"
       => \A mac \in MacAddresses :
             (/\ MapHas(connectedDevices, "macAddress", mac)
              /\ Device(mac).socketId # lastOp'.socket)
                => /\ MapHas(connectedDevices', "macAddress", mac)
                   /\ MapGet(connectedDevices', "macAddress", mac) = Device(mac)
                   /\ OfflineFor(emitted', mac) = 0]_vars

\* d1 was registered by s1, then by s2, and s1 has been disconnected
C24_FirstHolderGone ==
    /\ lastOp.name = "disconnect"
    /\ lastOp.socket = "s1"
    /\ MapHas(connectedDevices, "macAddress", "d1")
    /\ Device("d1").socketId = "s2"
    /\ <<"s1", "d1">> \in everHolder


\* C25 as stated: once a socket has been disconnected, no Device Session and
\* no User Session with its socketId is left, whatever the socket had
\* registered and connected.
C25_NothingLeftOfSocket ==
    \A s \in Sockets :
        sockState[s] = "closed"
           => /\ FirstBySocket(connectedDevices, s) = 0
              /\ FirstBySocket(connectedUsers, s) = 0


\* C26 as stated: every device that a user_connected reply or a user_devices
\* reply reports to an owner has a Device Session whose userId is that owner.
C26_ReportedToCurrentOwner ==
    (\/ lastOp.name = "user_connect" /\ ~Falsy(lastOp.data, "userId")
     \/ lastOp.name = "get_user_devices" /\ ~IsUndefined(lastOp.data, "userId"))
       => \A mac \in Listed(emitted[1].body.devices) :
             /\ MapHas(connectedDevices, "macAddress", mac)
             /\ Device(mac).userId = lastOp.data.userId


\* C27 as stated: a message addressed to the room of an owner is delivered
\* only to sockets that sent a user_connect for that owner or whose latest
\* registration was under that owner; a socket that registered under the
\* owner and then under another owner is not among them.
C27_NoBroadcastOfFormerOwner ==
    \A i \in 1..Len(emitted) :
        emitted[i].kind = "room"
           => \A s \in emitted[i].rcpt :
                 \/ <<s, emitted[i].to>> \in everUser
                 \/ lastOwner[s] = emitted[i].to


\* C28 as stated: with the sweep running every interval, a Device Session
\* whose device sends no further registration is eventually evicted,
\* whatever the other session keeps sending.  (In this specification the
\* device session s1 sends nothing but registrations.)
C28_SilentDeviceEvicted ==
    <>[](lastOp.name # "device_register")
       => [](MapHas(connectedDevices, "macAddress", "d1")
                => <>(~MapHas(connectedDevices, "macAddress", "d1")))


\* C29: a device that has no Device Session gets one only by a registration:
\* every other handler leaves it absent, a gpio_status_update for it is
\* answered with the error alone, and a well-formed gpio_control for it is
\* answered with "Device not found" alone.  So a device the sweep evicted
\* stays absent whatever its socket, still connected, sends, until a
\* registration.
C29_EvictedStaysAbsent ==
    [][\A mac \in MacAddresses :
          ~MapHas(connectedDevices, "macAddress", mac)
             => /\ lastOp'.name # "device_register"
                   => ~MapHas(connectedDevices', "macAddress", mac)
                /\ (/\ lastOp'.name = "gpio_status_update"
                    /\ ~IsUndefined(lastOp'.data, "macAddress")
                    /\ lastOp'.data.macAddress = mac)
                   => emitted' = <<ErrorMsg(lastOp'.socket,
                                     "Device not found or unauthorized")>>
                /\ (/\ lastOp'.name = "gpio_control"
                    /\ ~ControlInvalid(lastOp'.data)
                    /\ lastOp'.data.macAddress = mac)
                   => emitted' = <<ErrorMsg(lastOp'.socket, NotFoundText)>>]_vars

\* the socket that alone ever held d1 is still connected, the sweep has
\* evicted d1, and the socket has sent a gpio_status_update for d1
C29_UpdateAfterEviction ==
    /\ lastOp.name = "gpio_status_update"
    /\ ~IsUndefined(lastOp.data, "macAddress")
    /\ lastOp.data.macAddress = "d1"
    /\ {p \in everHolder : p[2] = "d1"} = {<<lastOp.socket, "d1">>}
    /\ offlineCount["d1"] = 1
    /\ ~MapHas(connectedDevices, "macAddress", "d1")


\* C30 as stated: under the probe revision a socket has at most one probe
\* timer (and one heartbeat_ack listener) at any time, however many
\* registrations and user_connect messages it has sent.
C30_OneProbeTimerPerSocket ==
    \A s \in Sockets : Len(monitors[s]) <= 1

====
